---- MODULE Spec2Model ----
(***************************************************************************)
(* Index-contraction analysis of sympy/tensor/index_methods.py:            *)
(* _remove_repeated, _get_indices_Mul, _get_indices_Add, get_indices and   *)
(* get_contraction_structure, as operators over expression trees, driven   *)
(* by a state machine that picks an input and calls the entry points.      *)
(***************************************************************************)
EXTENDS Integers, Sequences, FiniteSets, TLC

VARIABLES
    hash,       \* hash slot of every index object (fixed for one run)
    inds,       \* _remove_repeated: the sequence being scanned
    pos,        \* _remove_repeated: number of elements scanned so far
    sum_index,  \* _remove_repeated: the dict sum_index (keys in insertion order, counts)
    rr,         \* _remove_repeated: "idle", "scan", "returned" or "AssertionError"
    rr_ret,     \* _remove_repeated: the returned (set, tuple)
    expr,       \* the expression handed to get_indices / get_contraction_structure
    gi,         \* outcome of get_indices(expr)
    gim,        \* outcome of _get_indices_Mul(expr, return_dummies=True)
    gcs         \* outcome of get_contraction_structure(expr)

vars == <<hash, inds, pos, sum_index, rr, rr_ret, expr, gi, gim, gcs>>

(***************************************************************************)
(* Bounds of the model.                                                    *)
(***************************************************************************)
\* longest sequence handed to _remove_repeated on its own
MaxLen == 4
\* largest number of indices of an Indexed leaf of a flat sum or product
MaxRank == 2
\* largest hash slot of an index object; equal slots are collisions
MaxHash == 2

Idx == {"i", "j", "k"}

Range(s) == {s[n] : n \in DOMAIN s}

Occurrences(s, a) == Cardinality({n \in DOMAIN s : s[n] = a})

SeqsUpTo(S, n) == UNION {[1..m -> S] : m \in 1..n}

(***************************************************************************)
(* Iteration order of a dict or set.  The source is Python 2                *)
(* (list-returning filter and map, builtin reduce): a dict or set is       *)
(* iterated in the order of the hash slots of its keys, and where the      *)
(* slots of two keys collide the order follows the order of insertion.     *)
(* keys is the insertion order, without repetitions.                       *)
(***************************************************************************)
RECURSIVE IterationOrder(_)
IterationOrder(keys) ==
    IF keys = <<>> THEN <<>>
    ELSE LET before == SelectSeq(Tail(keys), LAMBDA k : hash[k] < hash[Head(keys)])
             after  == SelectSeq(Tail(keys), LAMBDA k : hash[k] >= hash[Head(keys)])
         IN  IterationOrder(before) \o <<Head(keys)>> \o IterationOrder(after)

(***************************************************************************)
(* _remove_repeated: one iteration of the loop over inds (lines 29-34).    *)
(* d is the dict sum_index, i the element scanned; failed records that the *)
(* assertion of line 32 did not hold.                                      *)
(***************************************************************************)
EmptyDict == [keys |-> <<>>, val |-> <<>>, failed |-> FALSE]

\* the loop without line 32
ScanStepNoAssert(d, i) ==
    IF i \in Range(d.keys)
    THEN [d EXCEPT !.val = [d.val EXCEPT ![i] = @ + 1]]
    ELSE [d EXCEPT !.keys = Append(d.keys, i),
                   !.val = [k \in Range(d.keys) \cup {i} |->
                               IF k = i THEN 0 ELSE d.val[k]]]

\* line 32 as assert sum_index[i] == 0
ScanStepAssertZero(d, i) ==
    IF i \in Range(d.keys)
    THEN [d EXCEPT !.val = [d.val EXCEPT ![i] = @ + 1],
                   !.failed = (d.val[i] + 1 # 0)]
    ELSE [d EXCEPT !.keys = Append(d.keys, i),
                   !.val = [k \in Range(d.keys) \cup {i} |->
                               IF k = i THEN 0 ELSE d.val[k]]]

\* lines 30-34
ScanStep(d, i) ==
    IF i \in Range(d.keys)
    THEN [d EXCEPT !.val = [d.val EXCEPT ![i] = @ + 1],
                   !.failed = (d.val[i] + 1 # 1)]
    ELSE [d EXCEPT !.keys = Append(d.keys, i),
                   !.val = [k \in Range(d.keys) \cup {i} |->
                               IF k = i THEN 0 ELSE d.val[k]]]

\* the loop: stops at the first failed assertion
RECURSIVE Scan(_, _)
Scan(d, s) ==
    IF s = <<>> \/ d.failed THEN d ELSE Scan(ScanStep(d, Head(s)), Tail(s))

(***************************************************************************)
(* _remove_repeated: lines 35-36, the filter and the returned pair.  The   *)
(* set is kept as the sequence of its elements in iteration order.         *)
(***************************************************************************)
\* line 35 without the filter
OnceUnfiltered(s, d) ==
    IterationOrder(d.keys)

\* line 35 and set(inds) of line 36
Once(s, d) ==
    IterationOrder(SelectSeq(s, LAMBDA x : d.val[x] = 0))

\* the tuple of line 36
Twice(d) ==
    SelectSeq(IterationOrder(d.keys), LAMBDA k : d.val[k] # 0)

AssertionFailed == [err |-> "AssertionError", once |-> <<>>, twice |-> <<>>]

_remove_repeated(s) ==
    LET d == Scan(EmptyDict, s)
    IN  IF d.failed THEN AssertionFailed
        ELSE [err |-> "none", once |-> Once(s, d), twice |-> Twice(d)]

(***************************************************************************)
(* Expression nodes.  An Indexed leaf carries a base name and its index    *)
(* sequence; Mul and Add carry their args; Function stands for any other   *)
(* node class (a function application, a power) with its args.             *)
(***************************************************************************)
Indexed(b, s)  == [tag |-> "Indexed", name |-> b, indices |-> s, args |-> <<>>]
Atom(n)        == [tag |-> "Atom", name |-> n, indices |-> <<>>, args |-> <<>>]
Mul(a)         == [tag |-> "Mul", name |-> "", indices |-> <<>>, args |-> a]
Add(a)         == [tag |-> "Add", name |-> "", indices |-> <<>>, args |-> a]
Function(f, a) == [tag |-> "Function", name |-> f, indices |-> <<>>, args |-> a]

is_Atom(e) == e.tag = "Atom"
is_Mul(e)  == e.tag = "Mul"
is_Add(e)  == e.tag = "Add"
isinstance_Indexed(e) == e.tag = "Indexed"

\* expr.has(Indexed): some node of the tree is an Indexed leaf
RECURSIVE has_Indexed(_)
has_Indexed(e) ==
    \/ isinstance_Indexed(e)
    \/ \E n \in DOMAIN e.args : has_Indexed(e.args[n])

\* expr.as_coeff_terms() of a Mul without a numeric coefficient: its factors
as_coeff_terms(e) == e.args

RECURSIVE Concat(_)
Concat(ss) == IF ss = <<>> THEN <<>> ELSE Head(ss) \o Concat(Tail(ss))

\* the first element of a sequence of outcomes that is an exception, if any
FirstError(rs) ==
    LET bad == {n \in DOMAIN rs : rs[n].err # "none"}
    IN  IF bad = {} THEN 0 ELSE CHOOSE n \in bad : \A m \in bad : n <= m

(***************************************************************************)
(* Symmetry maps: dicts from index pairs to a sign.                        *)
(***************************************************************************)
EmptyMap == <<>>

\* _get_indices_Mul, lines 61-67
RECURSIVE MergeSymmetry(_, _)
MergeSymmetry(symmetry, syms) ==
    IF syms = <<>> THEN symmetry
    ELSE LET s == Head(syms)
         IN  MergeSymmetry(
                 [pair \in DOMAIN symmetry \cup DOMAIN s |->
                     IF pair \in DOMAIN symmetry /\ pair \in DOMAIN s
                     THEN symmetry[pair] * s[pair]
                     ELSE IF pair \in DOMAIN s THEN s[pair] ELSE symmetry[pair]],
                 Tail(syms))

\* _get_indices_Add, lines 109-113: reduce(lambda x, y: x != y or y, syms) is
\* falsy only when every map equals the first and that map is empty
AddSymmetry(syms) ==
    IF (\A n \in DOMAIN syms : syms[n] = syms[1]) /\ syms[Len(syms)] = EmptyMap
    THEN syms[1] ELSE EmptyMap

(***************************************************************************)
(* Outcomes of get_indices: err names the exception raised ("none" when    *)
(* the call returns), inds is the returned set in iteration order, syms    *)
(* the symmetry dict, dummies the third component of _get_indices_Mul.     *)
(***************************************************************************)
Raised(e) == [err |-> e, inds |-> <<>>, syms |-> EmptyMap, dummies |-> <<>>]
Returned(i, s, d) == [err |-> "none", inds |-> i, syms |-> s, dummies |-> d]

RECURSIVE get_indices(_)
RECURSIVE _get_indices_Mul(_, _)
RECURSIVE _get_indices_Add(_)

\* lines 53-72 with line 59 keeping every index of the factors as outer
_get_indices_Mul_keeps_dummies(e, return_dummies) ==
    LET factors == as_coeff_terms(e)
        rs      == [n \in DOMAIN factors |-> get_indices(factors[n])]
        bad     == FirstError(rs)
        all     == Concat([n \in DOMAIN rs |-> rs[n].inds])
        r       == _remove_repeated(all)
        symmetry == MergeSymmetry(EmptyMap, [n \in DOMAIN rs |-> rs[n].syms])
    IN  IF bad # 0 THEN Raised(rs[bad].err)
        ELSE IF r.err # "none" THEN Raised(r.err)
        ELSE Returned(r.once \o r.twice, symmetry,
                      IF return_dummies THEN r.twice ELSE <<>>)

\* lines 53-72
_get_indices_Mul(e, return_dummies) ==
    LET factors == as_coeff_terms(e)
        rs      == [n \in DOMAIN factors |-> get_indices(factors[n])]
        bad     == FirstError(rs)
        r       == _remove_repeated(Concat([n \in DOMAIN rs |-> rs[n].inds]))
        symmetry == MergeSymmetry(EmptyMap, [n \in DOMAIN rs |-> rs[n].syms])
    IN  IF bad # 0 THEN Raised(rs[bad].err)
        ELSE IF r.err # "none" THEN Raised(r.err)
        ELSE Returned(r.once, symmetry, IF return_dummies THEN r.twice ELSE <<>>)

\* lines 99-115 without the filter of line 103
_get_indices_Add_no_broadcast(e) ==
    LET rs  == [n \in DOMAIN e.args |-> get_indices(e.args[n])]
        bad == FirstError(rs)
        non_scalars == [n \in DOMAIN rs |-> rs[n].inds]
    IN  IF bad # 0 THEN Raised(rs[bad].err)
        ELSE IF ~ \A n \in 2..Len(non_scalars) :
                     Range(non_scalars[n]) = Range(non_scalars[1])
        THEN Raised("IndexConformanceException")
        ELSE Returned(non_scalars[1],
                      AddSymmetry([n \in DOMAIN rs |-> rs[n].syms]), <<>>)

\* lines 99-115
_get_indices_Add(e) ==
    LET rs  == [n \in DOMAIN e.args |-> get_indices(e.args[n])]
        bad == FirstError(rs)
        non_scalars == SelectSeq([n \in DOMAIN rs |-> rs[n].inds],
                                 LAMBDA x : Range(x) # {})
    IN  IF bad # 0 THEN Raised(rs[bad].err)
        ELSE IF non_scalars = <<>> THEN Returned(<<>>, EmptyMap, <<>>)
        ELSE IF ~ \A n \in 2..Len(non_scalars) :
                     Range(non_scalars[n]) = Range(non_scalars[1])
        THEN Raised("IndexConformanceException")
        ELSE Returned(non_scalars[1],
                      AddSymmetry([n \in DOMAIN rs |-> rs[n].syms]), <<>>)

\* lines 175-196 with an empty result in place of line 195
get_indices_default_empty(e) ==
    IF isinstance_Indexed(e)
    THEN LET r == _remove_repeated(e.indices)
         IN  IF r.err # "none" THEN Raised(r.err)
             ELSE Returned(r.once, EmptyMap, <<>>)
    ELSE IF is_Atom(e) THEN Returned(<<>>, EmptyMap, <<>>)
    ELSE IF is_Mul(e) THEN _get_indices_Mul(e, FALSE)
    ELSE IF is_Add(e) THEN _get_indices_Add(e)
    ELSE Returned(<<>>, EmptyMap, <<>>)

\* lines 175-196; the branch expr is None (lines 179-180) has no node here
get_indices(e) ==
    IF isinstance_Indexed(e)
    THEN LET r == _remove_repeated(e.indices)
         IN  IF r.err # "none" THEN Raised(r.err)
             ELSE Returned(r.once, EmptyMap, <<>>)
    ELSE IF is_Atom(e) THEN Returned(<<>>, EmptyMap, <<>>)
    ELSE IF is_Mul(e) THEN _get_indices_Mul(e, FALSE)
    ELSE IF is_Add(e) THEN _get_indices_Add(e)
    ELSE IF ~ has_Indexed(e) THEN Returned(<<>>, EmptyMap, <<>>)
    ELSE Raised("NotImplementedError")

(***************************************************************************)
(* Contraction structures.  The returned dict is kept in two parts: sums   *)
(* holds the entries whose key is None or a tuple of dummy indices (values *)
(* are sets of expressions), nested the entries whose key is an expression *)
(* (values are lists of contraction structures).                           *)
(***************************************************************************)
None == [none |-> TRUE, dummies |-> <<>>]

\* key or None (lines 249, 254): the empty tuple is falsy
KeyOrNone(key) == IF key = <<>> THEN None ELSE [none |-> FALSE, dummies |-> key]

EmptyStructure == [err |-> "none", sums |-> <<>>, nested |-> <<>>]
Failed(e) == [err |-> e, sums |-> <<>>, nested |-> <<>>]

\* {key: set([expr])}
Single(key, e) == [err |-> "none", sums |-> (key :> {e}), nested |-> <<>>]

\* lines 272-276 with result[key] = d[key] for every key
MergeIntoOverwrite(result, d) ==
    [err |-> "none",
     sums |-> [key \in DOMAIN result.sums \cup DOMAIN d.sums |->
                  IF key \in DOMAIN d.sums THEN d.sums[key] ELSE result.sums[key]],
     nested |-> [key \in DOMAIN result.nested \cup DOMAIN d.nested |->
                  IF key \in DOMAIN d.nested THEN d.nested[key]
                  ELSE result.nested[key]]]

\* lines 272-276: for key in d: result[key] |= d[key], or result[key] = d[key].
\* An expression key holds a list, which has no |=.
MergeInto(result, d) ==
    IF DOMAIN result.nested \cap DOMAIN d.nested # {} THEN Failed("TypeError")
    ELSE [err |-> "none",
          sums |-> [key \in DOMAIN result.sums \cup DOMAIN d.sums |->
                       IF key \in DOMAIN result.sums /\ key \in DOMAIN d.sums
                       THEN result.sums[key] \cup d.sums[key]
                       ELSE IF key \in DOMAIN d.sums THEN d.sums[key]
                       ELSE result.sums[key]],
          nested |-> [key \in DOMAIN result.nested \cup DOMAIN d.nested |->
                       IF key \in DOMAIN d.nested THEN d.nested[key]
                       ELSE result.nested[key]]]

RECURSIVE get_contraction_structure(_)
RECURSIVE MergeTerms(_, _)

\* lines 268-277: the loop over expr.args
MergeTerms(result, terms) ==
    IF terms = <<>> \/ result.err # "none" THEN result
    ELSE LET d == get_contraction_structure(Head(terms))
         IN  IF d.err # "none" THEN d
             ELSE MergeTerms(MergeInto(result, d), Tail(terms))

\* lines 253-262 with result[expr] = [d] in place of the append of line 261
ContractionOfMulLastOnly(e) ==
    LET m == _get_indices_Mul(e, TRUE)
        addfactors == SelectSeq(e.args, is_Add)
        ds  == [n \in DOMAIN addfactors |-> get_contraction_structure(addfactors[n])]
        bad == FirstError(ds)
    IN  IF m.err # "none" THEN Failed(m.err)
        ELSE IF addfactors = <<>> THEN Single(KeyOrNone(m.dummies), e)
        ELSE IF bad # 0 THEN ds[bad]
        ELSE [Single(KeyOrNone(m.dummies), e) EXCEPT !.nested = (e :> <<ds[Len(ds)]>>)]

\* lines 253-262
ContractionOfMul(e) ==
    LET m == _get_indices_Mul(e, TRUE)
        addfactors == SelectSeq(e.args, is_Add)
        ds  == [n \in DOMAIN addfactors |-> get_contraction_structure(addfactors[n])]
        bad == FirstError(ds)
    IN  IF m.err # "none" THEN Failed(m.err)
        ELSE IF addfactors = <<>> THEN Single(KeyOrNone(m.dummies), e)
        ELSE IF bad # 0 THEN ds[bad]
        ELSE [Single(KeyOrNone(m.dummies), e) EXCEPT !.nested = (e :> ds)]

\* lines 247-284 with the conformance check of get_indices on every Sum
get_contraction_structure_conformance(e) ==
    IF isinstance_Indexed(e)
    THEN LET r == _remove_repeated(e.indices)
         IN  IF r.err # "none" THEN Failed(r.err)
             ELSE Single(KeyOrNone(r.twice), e)
    ELSE IF is_Atom(e) THEN Single(None, e)
    ELSE IF is_Mul(e) THEN ContractionOfMul(e)
    ELSE IF is_Add(e)
    THEN IF get_indices(e).err # "none" THEN Failed(get_indices(e).err)
         ELSE MergeTerms(EmptyStructure, e.args)
    ELSE IF ~ has_Indexed(e) THEN Single(None, e)
    ELSE Failed("NotImplementedError")

\* lines 247-284
get_contraction_structure(e) ==
    IF isinstance_Indexed(e)
    THEN LET r == _remove_repeated(e.indices)
         IN  IF r.err # "none" THEN Failed(r.err)
             ELSE Single(KeyOrNone(r.twice), e)
    ELSE IF is_Atom(e) THEN Single(None, e)
    ELSE IF is_Mul(e) THEN ContractionOfMul(e)
    ELSE IF is_Add(e) THEN MergeTerms(EmptyStructure, e.args)
    ELSE IF ~ has_Indexed(e) THEN Single(None, e)
    ELSE Failed("NotImplementedError")

(***************************************************************************)
(* Inputs.  The analysis never reads the base of an Indexed leaf, so every *)
(* position of an expression gets a base of its own: the args of a Mul or  *)
(* an Add are then distinct, as the expression constructors keep them.     *)
(***************************************************************************)
\* only the order of the slots matters: the slots in use are 0, 1, ... without gaps
HashFns == {h \in [Idx -> 0..MaxHash] :
               \A v \in 1..MaxHash : (\E a \in Idx : h[a] = v) =>
                                      (\E a \in Idx : h[a] = v - 1)}

\* a scalar symbol, a function of a scalar, and a function of an Indexed leaf
Opaque(b) == {Atom(b), Function("f", <<Atom(b)>>),
              Function("f", <<Indexed(b, <<"i">>)>>)}

\* the index sequences of vectors and matrices over S
Short(S) == {<<a>> : a \in S} \cup {<<a, b>> : a, b \in S}

\* the leaves and opaque nodes at the positions of a flat sum or product
Term(b) == {Indexed(b, s) : s \in SeqsUpTo(Idx, MaxRank)} \cup Opaque(b)
ShortTerm(b) == {Indexed(b, s) : s \in Short(Idx)} \cup Opaque(b)

\* vectors and matrices over i and j, for the positions of nested expressions
CoreIdx == {"i", "j"}
Core(b) == {Indexed(b, s) : s \in Short(CoreIdx)}
Vector(b) == {Indexed(b, <<a>>) : a \in CoreIdx}

Leaves == {Indexed("A", s) : s \in SeqsUpTo(Idx, MaxLen)} \cup Opaque("A")

Flat == {Mul(<<s, t>>) : s \in Term("x"), t \in ShortTerm("y")}
        \cup {Add(<<s, t>>) : s \in Term("x"), t \in ShortTerm("y")}

\* sums of two leaves with the same number of indices, up to MaxLen, and
\* products of such a leaf and a vector or matrix, over i and j
Long ==
    UNION {{Add(<<Indexed("A", s), Indexed("B", t)>>) : s, t \in [1..m -> CoreIdx]} :
              m \in 1..MaxLen}
    \cup {Mul(<<Indexed("A", s), t>>) : s \in SeqsUpTo(CoreIdx, MaxLen), t \in Core("B")}

Args3 == {<<s, t, u>> : s \in Core("x"),
                        t \in Core("y") \cup {Atom("y")},
                        u \in Core("z") \cup Opaque("z")}

Flat3 == {Mul(a) : a \in Args3} \cup {Add(a) : a \in Args3}

\* (s + t)*u, u*(s + t), s*t + u, u + s*t
Nested1 ==
    {Mul(<<Add(<<a[1], a[2]>>), a[3]>>) : a \in Args3}
    \cup {Mul(<<a[3], Add(<<a[1], a[2]>>)>>) : a \in Args3}
    \cup {Add(<<Mul(<<a[1], a[2]>>), a[3]>>) : a \in Args3}
    \cup {Add(<<a[3], Mul(<<a[1], a[2]>>)>>) : a \in Args3}

Args4 == {<<s, t, u, v>> : s \in Core("x"), t \in Core("y"),
                           u \in Core("A") \cup Opaque("A"), v \in Vector("B")}

\* (s + t)*(u + v), s*t + u*v, (s + t*u)*v
Nested2 ==
    {Mul(<<Add(<<a[1], a[2]>>), Add(<<a[3], a[4]>>)>>) : a \in Args4}
    \cup {Add(<<Mul(<<a[1], a[2]>>), Mul(<<a[3], a[4]>>)>>) : a \in Args4}
    \cup {Mul(<<Add(<<a[1], Mul(<<a[2], a[3]>>)>>), a[4]>>) : a \in Args4}

Exprs == Leaves \cup Flat \cup Long \cup Flat3 \cup Nested1 \cup Nested2

NotCalled == Raised("not called")
NoStructure == Failed("not called")
NoReturn == [once |-> <<>>, twice |-> <<>>]

(***************************************************************************)
(* _remove_repeated, run statement by statement on a sequence of indices.  *)
(***************************************************************************)
InitRR ==
    /\ hash \in HashFns
    /\ inds \in SeqsUpTo(Idx, MaxLen) \cup {<<>>}
    /\ pos = 0
    /\ sum_index = EmptyDict
    /\ rr = "scan"
    /\ rr_ret = NoReturn
    /\ expr = Atom("a")
    /\ gi = NotCalled
    /\ gim = NotCalled
    /\ gcs = NoStructure

\* lines 29-34: one iteration; the assertion ends the call
ScanElement ==
    /\ rr = "scan"
    /\ pos < Len(inds)
    /\ sum_index' = ScanStep(sum_index, inds[pos + 1])
    /\ pos' = pos + 1
    /\ rr' = IF sum_index'.failed THEN "AssertionError" ELSE "scan"
    /\ UNCHANGED <<hash, inds, rr_ret, expr, gi, gim, gcs>>

\* lines 35-36
ReturnPair ==
    /\ rr = "scan"
    /\ pos = Len(inds)
    /\ rr_ret' = [once |-> Once(inds, sum_index), twice |-> Twice(sum_index)]
    /\ rr' = "returned"
    /\ UNCHANGED <<hash, inds, pos, sum_index, expr, gi, gim, gcs>>

NextRR == ScanElement \/ ReturnPair

SpecRR == InitRR /\ [][NextRR]_vars

(***************************************************************************)
(* The entry points, called on one expression.                             *)
(***************************************************************************)
Init ==
    /\ hash \in HashFns
    /\ expr \in Exprs
    /\ inds = <<>>
    /\ pos = 0
    /\ sum_index = EmptyDict
    /\ rr = "idle"
    /\ rr_ret = NoReturn
    /\ gi = NotCalled
    /\ gim = NotCalled
    /\ gcs = NoStructure

CallGetIndices ==
    /\ gi = NotCalled
    /\ gi' = get_indices(expr)
    /\ UNCHANGED <<hash, inds, pos, sum_index, rr, rr_ret, expr, gim, gcs>>

CallGetContractionStructure ==
    /\ gi # NotCalled
    /\ gcs = NoStructure
    /\ gcs' = get_contraction_structure(expr)
    /\ UNCHANGED <<hash, inds, pos, sum_index, rr, rr_ret, expr, gi, gim>>

CallGetIndicesMul ==
    /\ gcs # NoStructure
    /\ gim = NotCalled
    /\ is_Mul(expr)
    /\ gim' = _get_indices_Mul(expr, TRUE)
    /\ UNCHANGED <<hash, inds, pos, sum_index, rr, rr_ret, expr, gi, gcs>>

Next == CallGetIndices \/ CallGetContractionStructure \/ CallGetIndicesMul

Spec == Init /\ [][Next]_vars

(***************************************************************************)
(* Notions the properties are stated with.                                 *)
(***************************************************************************)
Called == gi # NotCalled
Built == gcs # NoStructure

\* get_indices of each arg of the expression
ArgIndices == [n \in DOMAIN expr.args |-> get_indices(expr.args[n])]

\* get_contraction_structure of each arg of the expression
ArgStructures ==
    [n \in DOMAIN expr.args |-> get_contraction_structure(expr.args[n])]

\* the args whose outer-index set holds the index a
ArgsWith(a) == {n \in DOMAIN expr.args : a \in Range(ArgIndices[n].inds)}

\* the indices that occur exactly once in the index sequence of a leaf
LeafOuter(e) == {a \in Range(e.indices) : Occurrences(e.indices, a) = 1}

AllLeaves(e) == \A n \in DOMAIN e.args : isinstance_Indexed(e.args[n])

\* a sum of leaves, two of which have different non-empty outer-index sets
LeafSumDiffers(e) ==
    /\ is_Add(e)
    /\ AllLeaves(e)
    /\ \A n \in DOMAIN e.args : \A a \in Idx : Occurrences(e.args[n].indices, a) <= 2
    /\ \E m, n \in DOMAIN e.args :
          /\ LeafOuter(e.args[m]) # {}
          /\ LeafOuter(e.args[n]) # {}
          /\ LeafOuter(e.args[m]) # LeafOuter(e.args[n])

\* some node of the tree is neither leaf, atom, product nor sum, and holds a leaf
RECURSIVE Unsupported(_)
Unsupported(e) ==
    \/ e.tag = "Function" /\ has_Indexed(e)
    \/ \E n \in DOMAIN e.args : Unsupported(e.args[n])

\* (x[i] + A[i,j]*y[j])*x[j] and x[i,k]*y[j,k]
NestedExample ==
    Mul(<<Add(<<Indexed("x", <<"i">>),
                Mul(<<Indexed("y", <<"i", "j">>), Indexed("A", <<"j">>)>>)>>),
          Indexed("B", <<"j">>)>>)
ContractionExample ==
    Mul(<<Indexed("x", <<"i", "k">>), Indexed("y", <<"j", "k">>)>>)

C2_ProductIndices ==
    /\ (is_Mul(expr) /\ gim # NotCalled /\ gim.err = "none") =>
          /\ Range(gim.inds) = {a \in Idx : Cardinality(ArgsWith(a)) = 1}
          /\ Range(gim.dummies) = {a \in Idx : Cardinality(ArgsWith(a)) = 2}
          /\ Len(gim.dummies) = Cardinality(Range(gim.dummies))
          /\ gi.err = "none" /\ Range(gi.inds) = Range(gim.inds)
          /\ \A n \in DOMAIN expr.args :
                isinstance_Indexed(expr.args[n]) =>
                    Range(ArgIndices[n].inds) = LeafOuter(expr.args[n])
    /\ (expr = NestedExample /\ Called) =>
          gi.err = "none" /\ Range(gi.inds) = {"i", "j"} /\ gi.syms = EmptyMap
    /\ (expr = ContractionExample /\ gim # NotCalled) =>
          /\ gim.err = "none" /\ Range(gim.inds) = {"i", "j"}
          /\ gim.dummies = <<"k">>

C2_Witness ==
    expr = NestedExample /\ gim # NotCalled /\ gim.err = "none" /\ Len(gim.inds) = 2

(***************************************************************************)
(* C3 as claimed: a Product of Indexed leaves in which some index occurs   *)
(* three or more times in all, repetitions inside one leaf counted, makes  *)
(* get_indices and get_contraction_structure fail.                         *)
(***************************************************************************)
C3_EveryTripleFails ==
    (is_Mul(expr) /\ AllLeaves(expr) /\ Built
       /\ \E a \in Idx :
            Occurrences(Concat([n \in DOMAIN expr.args |-> expr.args[n].indices]), a) >= 3)
    => (gi.err # "none" /\ gcs.err # "none")

(***************************************************************************)
(* C3 amended: a Product of Indexed leaves in which some index occurs      *)
(* three or more times inside one leaf, or is an outer index (occurs       *)
(* exactly once) of three or more leaves, makes get_indices and            *)
(* get_contraction_structure fail with the assertion.                      *)
(***************************************************************************)
C3_OuterTripleFails ==
    (is_Mul(expr) /\ AllLeaves(expr) /\ Built
       /\ \E a \in Idx :
            \/ \E n \in DOMAIN expr.args : Occurrences(expr.args[n].indices, a) >= 3
            \/ Cardinality({n \in DOMAIN expr.args : a \in LeafOuter(expr.args[n])}) >= 3)
    => (gi.err = "AssertionError" /\ gcs.err = "AssertionError")

\* x[a]*y[a]*z[a]: no leaf repeats an index, the product has one three times
C3_Witness ==
    /\ is_Mul(expr) /\ AllLeaves(expr) /\ Built /\ Len(expr.args) = 3
    /\ \A n \in DOMAIN expr.args : Len(expr.args[n].indices) = 1
    /\ gi.err = "AssertionError" /\ gcs.err = "AssertionError"

C5_SumStructure ==
    (is_Add(expr) /\ Built /\ gcs.err = "none") =>
        /\ DOMAIN gcs.sums = UNION {DOMAIN ArgStructures[n].sums : n \in DOMAIN expr.args}
        /\ DOMAIN gcs.nested =
              UNION {DOMAIN ArgStructures[n].nested : n \in DOMAIN expr.args}
        /\ \A key \in DOMAIN gcs.sums :
              gcs.sums[key] =
                  UNION {ArgStructures[n].sums[key] :
                            n \in {m \in DOMAIN expr.args :
                                      key \in DOMAIN ArgStructures[m].sums}}
        /\ \A n \in DOMAIN expr.args :
              Cardinality({key \in DOMAIN gcs.sums : expr.args[n] \in gcs.sums[key]}) = 1

\* three terms, two of them under one key of dummies, the third under another key
C5_Witness ==
    /\ is_Add(expr) /\ Built /\ gcs.err = "none" /\ Len(expr.args) = 3
    /\ Cardinality(DOMAIN gcs.sums) = 2
    /\ \E key \in DOMAIN gcs.sums : ~ key.none /\ Cardinality(gcs.sums[key]) = 2

(***************************************************************************)
(* C6 as claimed: the dummy tuple used as a key depends only on the set of *)
(* dummy indices, so two terms of a Sum that sum over the same set of      *)
(* dummy indices are collected in one set of the result.                   *)
(***************************************************************************)
C6_CanonicalKey ==
    (is_Add(expr) /\ Built /\ gcs.err = "none") =>
        \A m, n \in DOMAIN expr.args :
            (\E k \in DOMAIN ArgStructures[m].sums, l \in DOMAIN ArgStructures[n].sums :
                Range(k.dummies) = Range(l.dummies))
            => \E key \in DOMAIN gcs.sums :
                  {expr.args[m], expr.args[n]} \subseteq gcs.sums[key]

(***************************************************************************)
(* C7: for a sequence in which no element occurs three or more times,      *)
(* _remove_repeated returns a set of exactly the elements occurring once   *)
(* and a tuple holding, each once, exactly the elements occurring twice;   *)
(* the two are disjoint and together cover the sequence.                   *)
(***************************************************************************)
C7_OnceAndTwice ==
    (rr = "returned" /\ \A a \in Idx : Occurrences(inds, a) <= 2) =>
        /\ Range(rr_ret.once) = {a \in Idx : Occurrences(inds, a) = 1}
        /\ Range(rr_ret.twice) = {a \in Idx : Occurrences(inds, a) = 2}
        /\ \A a \in Range(rr_ret.twice) : Occurrences(rr_ret.twice, a) = 1
        /\ Range(rr_ret.once) \cap Range(rr_ret.twice) = {}
        /\ Range(rr_ret.once) \cup Range(rr_ret.twice) = Range(inds)

\* one element occurs twice, apart, and two occur once
C7_Witness ==
    /\ rr = "returned"
    /\ Len(rr_ret.twice) = 1
    /\ Len(rr_ret.once) = 2
    /\ inds[1] = inds[Len(inds)]

(***************************************************************************)
(* C8: _remove_repeated fails with the assertion if and only if some       *)
(* element occurs three or more times; it fails while scanning, at the     *)
(* third occurrence, and returns nothing.                                  *)
(***************************************************************************)
C8_FailsAtThird ==
    /\ rr = "AssertionError" =>
          /\ pos >= 1
          /\ Occurrences(SubSeq(inds, 1, pos), inds[pos]) = 3
          /\ \A a \in Idx : Occurrences(SubSeq(inds, 1, pos - 1), a) <= 2
          /\ rr_ret = NoReturn
    /\ rr = "scan" => \A a \in Idx : Occurrences(SubSeq(inds, 1, pos), a) <= 2
    /\ rr = "returned" => \A a \in Idx : Occurrences(inds, a) <= 2
    /\ rr \in {"scan", "returned", "AssertionError"}
    /\ (_remove_repeated(inds).err = "AssertionError")
          = (\E a \in Idx : Occurrences(inds, a) >= 3)

\* the assertion fails before the end of the sequence
C8_Witness ==
    rr = "AssertionError" /\ pos < Len(inds)

(***************************************************************************)
(* C9: a node that is no Indexed leaf, Atom, Product or Sum: without an    *)
(* Indexed leaf in it get_indices returns (empty set, empty map) and       *)
(* get_contraction_structure {None: {expr}}; with one both raise           *)
(* NotImplementedError, and neither returns a result for an expression     *)
(* that holds such a node as a factor or term at any depth.                *)
(***************************************************************************)
C9_Unsupported ==
    /\ (expr.tag = "Function" /\ ~ has_Indexed(expr)) =>
          /\ Called => gi.err = "none" /\ gi.inds = <<>> /\ gi.syms = EmptyMap
          /\ Built => /\ gcs.err = "none" /\ gcs.nested = <<>>
                      /\ DOMAIN gcs.sums = {None} /\ gcs.sums[None] = {expr}
    /\ (expr.tag = "Function" /\ has_Indexed(expr)) =>
          /\ Called => gi.err = "NotImplementedError"
          /\ Built => gcs.err = "NotImplementedError"
    /\ Unsupported(expr) =>
          /\ Called => gi.err # "none"
          /\ Built => gcs.err # "none"

\* the node is a factor of a product that is a term of a sum that is a factor
C9_Witness ==
    /\ Built /\ is_Mul(expr) /\ Unsupported(expr)
    /\ \E n \in DOMAIN expr.args :
          /\ is_Add(expr.args[n])
          /\ \E m \in DOMAIN expr.args[n].args : Unsupported(expr.args[n].args[m])
    /\ gi.err = "NotImplementedError" /\ gcs.err = "NotImplementedError"

(***************************************************************************)
(* C10: get_contraction_structure compares the terms of a Sum only when    *)
(* the Sum is a factor of a Product.  For a root Sum of leaves with        *)
(* different non-empty outer-index sets get_indices raises                 *)
(* IndexConformanceException and get_contraction_structure returns; for    *)
(* x[i] + y[j] it returns {None: {x[i], y[j]}}.  With such a Sum as a      *)
(* factor of a Product get_contraction_structure fails.                    *)
(***************************************************************************)
C10_RootSumNotCompared ==
    /\ (LeafSumDiffers(expr) /\ Built) =>
          /\ gi.err = "IndexConformanceException"
          /\ gcs.err = "none"
          /\ (\A n \in DOMAIN expr.args :
                 LeafOuter(expr.args[n]) = Range(expr.args[n].indices))
             => /\ DOMAIN gcs.sums = {None}
                /\ gcs.sums[None] = Range(expr.args)
                /\ gcs.nested = <<>>
    /\ (is_Mul(expr) /\ Built /\ \E n \in DOMAIN expr.args : LeafSumDiffers(expr.args[n]))
          => gcs.err # "none"

C10_Witness ==
    /\ expr = Add(<<Indexed("x", <<"i">>), Indexed("y", <<"j">>)>>)
    /\ gi.err = "IndexConformanceException"
    /\ gcs.err = "none"
    /\ gcs.sums = (None :> {Indexed("x", <<"i">>), Indexed("y", <<"j">>)})

====
